---- MODULE Spec2Model ----
(***************************************************************************)
(* Model of the two sketches of this repository:                           *)
(*   task_1_bloom_filter/bloom_filter_passwords.py  (BloomFilter and       *)
(*       check_password_uniqueness), and                                   *)
(*   task_2_hyper_log_log/hll_vs_exact.py           (HyperLogLog and       *)
(*       measure_hll).                                                     *)
(* The two files are independent programs: a run executes one of them, so  *)
(* the variable prog, fixed in the initial state, says which one runs.     *)
(*                                                                         *)
(* hashlib.sha256 and hashlib.sha1 are library functions.  They are        *)
(* tabulated with their real digests on the byte strings the model feeds   *)
(* them; everything the repository does with a digest (int(.., 16), %,     *)
(* &, >>, bit_length) is computed.                                         *)
(***************************************************************************)
EXTENDS Integers, Sequences, FiniteSets, TLC

VARIABLES
  prog,           \* which program runs: "bloom", "hll" or "measure_hll"
  bloom,          \* the BloomFilter object: its assigned fields
  hll,            \* the HyperLogLog object: its assigned fields
  pc,             \* position of the running function ("idle": none is running)
  new_passwords,  \* check_password_uniqueness: its argument
  cursor,         \* position of the running for loop in its input (1-based)
  results,        \* check_password_uniqueness: its local dict
  ips,            \* measure_hll: its argument
  ret,            \* outcome of the last call that returned or raised
  added           \* history: the items add() has been called with

vars == <<prog, bloom, hll, pc, new_passwords, cursor, results, ips, ret, added>>

----------------------------------------------------------------------------
(* Bounds of the model. *)

\* largest size given to BloomFilter(size, num_hashes)
MaxSize == 4
\* largest num_hashes given to BloomFilter(size, num_hashes)
MaxHashes == 2
\* longest list given to check_password_uniqueness
MaxPass == 2
\* how far above 4 the valid precisions given to HyperLogLog(p) go, 16 apart
ExtraPrecision == 1

----------------------------------------------------------------------------
(* Python values. *)

NoneItem == [t |-> "none"]
StrItem(s) == [t |-> "str", s |-> s]
IntItem(n) == [t |-> "int", n |-> n]

\* an object none of whose fields has been assigned; also the empty dict
NoFields == [f \in {} |-> 0]

DigitChar(d) ==
  CASE d = 0 -> "0" [] d = 1 -> "1" [] d = 2 -> "2" [] d = 3 -> "3"
    [] d = 4 -> "4" [] d = 5 -> "5" [] d = 6 -> "6" [] d = 7 -> "7"
    [] d = 8 -> "8" [] d = 9 -> "9"

RECURSIVE Decimal(_)
\* str(n) of a non-negative int
Decimal(n) ==
  IF n < 10 THEN DigitChar(n) ELSE Decimal(n \div 10) \o DigitChar(n % 10)

\* str(item)
py_str(item) ==
  CASE item.t = "none" -> "None"
    [] item.t = "str" -> item.s
    [] item.t = "int" -> IF item.n < 0 THEN "-" \o Decimal(0 - item.n)
                         ELSE Decimal(item.n)

\* d[k] = v on a dict
DictSet(d, k, v) == [x \in DOMAIN d \cup {k} |-> IF x = k THEN v ELSE d[x]]

----------------------------------------------------------------------------
(* task_1_bloom_filter/bloom_filter_passwords.py *)

\* the two status strings of check_password_uniqueness (non-ASCII in the
\* source: "вже використаний" and "унікальний")
DUPLICATE == "duplicate"
UNIQUE == "unique"

\* hashlib.sha256(data).hexdigest() as its 64 hexadecimal digits
sha256_hexdigest(data) ==
  CASE data = "0" ->
      <<5,15,14,12,14,11,6,6,15,15,12,8,6,15,3,8,13,9,5,2,7,8,6,12,6,13,6,9,6,12,7,9,12,2,13,11,12,2,3,9,13,13,4,14,9,1,11,4,6,7,2,9,13,7,3,10,2,7,15,11,5,7,14,9>>
    [] data = "1" ->
      <<6,11,8,6,11,2,7,3,15,15,3,4,15,12,14,1,9,13,6,11,8,0,4,14,15,15,5,10,3,15,5,7,4,7,10,13,10,4,14,10,10,2,2,15,1,13,4,9,12,0,1,14,5,2,13,13,11,7,8,7,5,11,4,11>>
    [] data = "2" ->
      <<13,4,7,3,5,14,3,10,2,6,5,14,1,6,14,14,14,0,3,15,5,9,7,1,8,11,9,11,5,13,0,3,0,1,9,12,0,7,13,8,11,6,12,5,1,15,9,0,13,10,3,10,6,6,6,14,14,12,1,3,10,11,3,5>>
    [] data = "3" ->
      <<4,14,0,7,4,0,8,5,6,2,11,14,13,11,8,11,6,0,12,14,0,5,12,1,13,14,12,15,14,3,10,13,1,6,11,7,2,2,3,0,9,6,7,13,14,0,1,15,6,4,0,11,7,14,4,7,2,9,11,4,9,15,12,14>>
    [] data = "None0" ->
      <<15,13,2,14,10,15,8,0,9,12,4,5,6,6,14,5,2,10,0,14,5,0,3,7,2,13,4,2,8,0,5,5,3,6,5,0,5,2,2,1,14,12,7,1,1,12,14,7,4,2,13,5,3,7,0,5,15,12,15,12,4,2,11,10>>
    [] data = "None1" ->
      <<6,5,15,2,4,15,9,4,8,2,8,4,9,10,1,2,12,8,7,8,4,1,3,13,13,0,6,15,15,5,14,11,15,8,13,15,12,6,5,9,12,8,14,4,13,1,13,0,8,1,10,15,9,2,7,6,9,8,10,10,8,3,8,0>>
    [] data = "None2" ->
      <<10,7,8,3,3,7,0,15,8,8,13,8,12,5,4,11,5,15,5,14,6,6,4,1,10,15,6,9,13,8,6,13,10,14,5,13,4,13,6,2,6,2,1,13,5,5,12,15,7,14,6,3,15,6,12,6,6,6,4,4,12,2,1,4>>
    [] data = "None3" ->
      <<15,6,13,6,8,0,6,3,10,15,8,0,12,2,1,14,13,14,15,0,8,10,14,13,4,3,7,13,0,9,2,5,2,2,14,7,15,0,9,12,2,5,9,0,5,5,9,1,11,11,11,15,12,4,4,1,11,7,8,8,13,11,6,5>>
    [] data = "10" ->
      <<4,10,4,4,13,12,1,5,3,6,4,2,0,4,10,8,0,15,14,8,0,14,9,0,3,9,4,5,5,12,12,1,6,0,8,2,8,1,8,2,0,15,14,2,11,2,4,15,1,14,5,2,3,3,10,13,14,6,10,15,1,13,13,5>>
    [] data = "11" ->
      <<4,15,12,8,2,11,2,6,10,14,12,11,4,7,13,2,8,6,8,12,4,14,15,11,14,3,5,8,1,7,3,2,10,3,14,7,12,11,12,12,6,12,2,14,15,11,3,2,0,6,2,12,0,8,1,7,0,10,0,5,14,14,11,8>>
    [] data = "12" ->
      <<6,11,5,1,13,4,3,1,13,15,5,13,7,15,1,4,1,12,11,14,12,14,12,12,15,7,9,14,13,15,3,13,13,8,6,1,12,3,11,4,0,6,9,15,0,11,1,1,6,6,1,10,3,14,14,15,10,12,11,11,10,9,1,8>>
    [] data = "13" ->
      <<3,15,13,11,10,3,5,15,0,4,13,12,8,12,4,6,2,9,8,6,12,9,9,2,11,12,15,8,7,5,5,4,6,2,5,7,1,1,3,0,7,2,10,9,0,9,12,1,6,2,15,7,14,4,7,0,14,5,8,1,14,2,7,8>>
    [] data = "guest0" ->
      <<10,3,7,7,4,13,8,12,3,1,6,10,0,11,4,7,4,10,8,3,4,7,15,10,1,5,7,9,8,11,4,8,15,10,2,0,5,11,11,10,10,10,10,1,6,6,11,9,1,1,8,8,1,5,2,4,0,6,4,9,5,4,10,2>>
    [] data = "guest1" ->
      <<4,6,7,6,4,2,4,13,5,15,8,0,5,10,7,5,7,9,10,11,13,1,2,3,6,2,8,7,11,14,2,10,11,15,2,4,15,3,9,11,8,10,6,2,2,14,15,5,8,7,14,13,13,7,13,9,1,11,8,14,2,9,5,2>>
    [] data = "guest2" ->
      <<5,11,14,6,11,10,1,4,4,6,14,13,4,11,13,4,1,11,6,5,6,11,7,4,0,14,12,12,10,11,7,4,5,2,4,6,0,2,11,12,5,15,2,7,4,14,0,3,6,7,7,11,6,11,10,11,7,13,4,2,4,13,13,5>>
    [] data = "guest3" ->
      <<1,1,8,13,1,2,13,9,3,12,14,14,7,8,10,4,12,12,8,11,5,8,5,4,6,10,1,12,4,7,12,13,2,12,10,3,0,11,11,12,4,8,13,2,9,10,4,10,6,5,5,14,7,6,14,10,14,11,11,15,15,10,6,14>>

RECURSIVE PowMod(_, _, _)
\* b ** e % n by repeated squaring
PowMod(b, e, n) ==
  IF e = 0 THEN 1 % n
  ELSE LET h == PowMod(b, e \div 2, n)
       IN IF e % 2 = 0 THEN (h * h) % n ELSE (((h * h) % n) * b) % n

RECURSIVE IntMod(_, _)
\* int(digest, 16) % size: the number the hexadecimal digits spell, reduced
\* modulo size (the digit string is split in halves to keep the numbers
\* below 2^31)
IntMod(digits, size) ==
  IF Len(digits) = 0 THEN 0
  ELSE IF Len(digits) = 1 THEN digits[1] % size
  ELSE LET half == Len(digits) \div 2
           hi == SubSeq(digits, 1, half)
           lo == SubSeq(digits, half + 1, Len(digits))
       IN (IntMod(hi, size) * PowMod(16, Len(lo), size) + IntMod(lo, size))
            % size

\* faulty variant: the first check lets size = 0 through
BloomFilter_init_zero(size, num_hashes) ==
  IF size < 0 THEN [raised |-> "ValueError", self |-> NoFields]
  ELSE IF num_hashes <= 0 THEN [raised |-> "ValueError", self |-> NoFields]
  ELSE [raised |-> "none",
        self |-> [size |-> size, num_hashes |-> num_hashes,
                  bit_array |-> [j \in 0..(size - 1) |-> 0]]]

BloomFilter_init(size, num_hashes) ==
  IF size <= 0 THEN [raised |-> "ValueError", self |-> NoFields]
  ELSE IF num_hashes <= 0 THEN [raised |-> "ValueError", self |-> NoFields]
  ELSE [raised |-> "none",
        self |-> [size |-> size, num_hashes |-> num_hashes,
                  bit_array |-> [j \in 0..(size - 1) |-> 0]]]

BloomFilter_normalize(item) ==
  IF item = NoneItem THEN "" ELSE py_str(item)

\* the raw items the callers pass
Passwords ==
  {NoneItem, StrItem(""), StrItem("None"), IntItem(1), StrItem("1")}

\* h of one salt: int(sha256(data).hexdigest(), 16) % size
Position(data, size) == IntMod(sha256_hexdigest(data), size)

\* Position on the arguments the model's runs give it, computed once
PositionTable ==
  [size \in 1..MaxSize,
   data \in {BloomFilter_normalize(item) \o Decimal(i) :
               item \in Passwords, i \in 0..(MaxHashes - 1)} |->
     Position(data, size)]

\* the positions _hashes yields, in order: element i + 1 is that of salt i
BloomFilter_hashes(self, item) ==
  LET s == BloomFilter_normalize(item)
  IN [k \in 1..self.num_hashes |->
        PositionTable[self.size, s \o Decimal(k - 1)]]

\* faulty variant: only the position of salt 0 is set
BloomFilter_add_first(self, item) ==
  LET hs == BloomFilter_hashes(self, item)
  IN [self EXCEPT !.bit_array = [@ EXCEPT ![hs[1]] = 1]]

\* faulty variant: the bits are flipped instead of set
BloomFilter_add_toggle(self, item) ==
  LET hs == BloomFilter_hashes(self, item)
  IN [self EXCEPT !.bit_array =
        [pos \in DOMAIN @ |->
           IF \E k \in DOMAIN hs : hs[k] = pos THEN 1 - @[pos] ELSE @[pos]]]

BloomFilter_add(self, item) ==
  LET hs == BloomFilter_hashes(self, item)
  IN [self EXCEPT !.bit_array =
        [pos \in DOMAIN @ |->
           IF \E k \in DOMAIN hs : hs[k] = pos THEN 1 ELSE @[pos]]]

BloomFilter_contains(self, item) ==
  LET hs == BloomFilter_hashes(self, item)
  IN \A k \in DOMAIN hs : self.bit_array[hs[k]] # 0

\* faulty variant: a new password is reported but not added
check_password_step_noadd(b, res, pwd) ==
  LET already_used == BloomFilter_contains(b, pwd)
      status == IF already_used THEN DUPLICATE ELSE UNIQUE
  IN [bloom |-> b,
      results |-> DictSet(res, py_str(pwd), status),
      added |-> {}]

\* one iteration of the for loop of check_password_uniqueness
check_password_step(b, res, pwd) ==
  LET already_used == BloomFilter_contains(b, pwd)
      status == IF already_used THEN DUPLICATE ELSE UNIQUE
  IN [bloom |-> IF already_used THEN b ELSE BloomFilter_add(b, pwd),
      results |-> DictSet(res, py_str(pwd), status),
      added |-> IF already_used THEN {} ELSE {pwd}]

RECURSIVE SeqsUpTo(_, _)
SeqsUpTo(S, n) ==
  IF n = 0 THEN {<<>>}
  ELSE LET shorter == SeqsUpTo(S, n - 1)
       IN shorter \cup {Append(q, x) : q \in shorter, x \in S}

\* the lists given to check_password_uniqueness
PasswordLists == SeqsUpTo(Passwords, MaxPass)

BloomConstructed == DOMAIN bloom # {}

\* ret while a call is running, and before the first one
Running == [op |-> "none", raised |-> "none"]

NewBloomFilter(size, num_hashes) ==
  /\ prog = "bloom" /\ pc = "idle" /\ ~BloomConstructed
  /\ LET r == BloomFilter_init(size, num_hashes)
     IN /\ bloom' = r.self
        /\ ret' = [op |-> "BloomFilter", size |-> size,
                   num_hashes |-> num_hashes, raised |-> r.raised]
  /\ UNCHANGED <<prog, hll, pc, new_passwords, cursor, results, ips, added>>

CallAdd(item) ==
  /\ prog = "bloom" /\ pc = "idle" /\ BloomConstructed
  /\ bloom' = BloomFilter_add(bloom, item)
  /\ added' = added \cup {item}
  /\ ret' = [op |-> "add", raised |-> "none"]
  /\ UNCHANGED <<prog, hll, pc, new_passwords, cursor, results, ips>>

CallContains(item) ==
  /\ prog = "bloom" /\ pc = "idle" /\ BloomConstructed
  /\ ret' = [op |-> "contains", raised |-> "none",
             value |-> BloomFilter_contains(bloom, item)]
  /\ UNCHANGED <<prog, bloom, hll, pc, new_passwords, cursor, results, ips,
                 added>>

CheckCall(pwds) ==
  /\ prog = "bloom" /\ pc = "idle" /\ BloomConstructed
  /\ pc' = "check_loop"
  /\ new_passwords' = pwds
  /\ cursor' = 1
  /\ results' = NoFields
  /\ ret' = Running
  /\ UNCHANGED <<prog, bloom, hll, ips, added>>

CheckStep ==
  /\ pc = "check_loop" /\ cursor <= Len(new_passwords)
  /\ LET r == check_password_step(bloom, results, new_passwords[cursor])
     IN /\ bloom' = r.bloom
        /\ results' = r.results
        /\ added' = added \cup r.added
  /\ cursor' = cursor + 1
  /\ UNCHANGED <<prog, hll, pc, new_passwords, ips, ret>>

CheckReturn ==
  /\ pc = "check_loop" /\ cursor > Len(new_passwords)
  /\ pc' = "idle"
  /\ ret' = [op |-> "check_password_uniqueness", pwds |-> new_passwords,
             raised |-> "none", value |-> results]
  /\ new_passwords' = <<>>
  /\ cursor' = 0
  /\ results' = NoFields
  /\ UNCHANGED <<prog, bloom, hll, ips, added>>

BloomNext ==
  \/ \E size \in (0 - 1)..MaxSize, num_hashes \in (0 - 1)..MaxHashes :
       NewBloomFilter(size, num_hashes)
  \/ \E item \in Passwords : CallAdd(item)
  \/ \E item \in Passwords : CallContains(item)
  \/ \E pwds \in PasswordLists : CheckCall(pwds)
  \/ CheckStep
  \/ CheckReturn

----------------------------------------------------------------------------
(* Natural numbers beyond 2^31, for the arithmetic of count(): a number is *)
(* the sequence of its base-4096 digits, least significant first, without  *)
(* leading zero digits (<<>> is 0).                                        *)

BigBase == 4096

RECURSIVE BigFromInt(_)
BigFromInt(n) ==
  IF n = 0 THEN <<>> ELSE <<n % BigBase>> \o BigFromInt(n \div BigBase)

RECURSIVE BigAddC(_, _, _)
BigAddC(a, b, c) ==
  IF a = <<>> /\ b = <<>> THEN BigFromInt(c)
  ELSE LET x == (IF a = <<>> THEN 0 ELSE Head(a))
                + (IF b = <<>> THEN 0 ELSE Head(b)) + c
       IN <<x % BigBase>>
            \o BigAddC(IF a = <<>> THEN a ELSE Tail(a),
                       IF b = <<>> THEN b ELSE Tail(b), x \div BigBase)

BigAdd(a, b) == BigAddC(a, b, 0)

RECURSIVE BigMulC(_, _, _)
BigMulC(a, n, c) ==
  IF a = <<>> THEN BigFromInt(c)
  ELSE LET x == Head(a) * n + c
       IN <<x % BigBase>> \o BigMulC(Tail(a), n, x \div BigBase)

\* a * n for an int 0 <= n <= 2^17
BigMulSmall(a, n) == IF n = 0 THEN <<>> ELSE BigMulC(a, n, 0)

\* a * 4096
BigShiftDigit(a) == IF a = <<>> THEN a ELSE <<0>> \o a

RECURSIVE BigMul(_, _)
BigMul(a, b) ==
  IF a = <<>> THEN <<>>
  ELSE BigAdd(BigMulSmall(b, Head(a)), BigShiftDigit(BigMul(Tail(a), b)))

\* 2 ** e
BigPow2(e) ==
  [d \in 1..(e \div 12 + 1) |-> IF d = e \div 12 + 1 THEN 2 ^ (e % 12) ELSE 0]

BigLess(a, b) ==
  \/ Len(a) < Len(b)
  \/ /\ Len(a) = Len(b)
     /\ \E d \in 1..Len(a) :
          a[d] < b[d] /\ \A e \in (d + 1)..Len(a) : a[e] = b[e]

BigLeq(a, b) == ~BigLess(b, a)

----------------------------------------------------------------------------
(* task_2_hyper_log_log/hll_vs_exact.py *)

MAX_BITS == 64

\* hashlib.sha1(data).hexdigest() as its 40 hexadecimal digits
sha1_hexdigest(data) ==
  CASE data = "a" ->
      <<8,6,15,7,14,4,3,7,15,10,10,5,10,7,15,12,14,1,5,13,1,13,13,12,11,9,14,10,14,10,14,10,3,7,7,6,6,7,11,8>>
    [] data = "b" ->
      <<14,9,13,7,1,15,5,14,14,7,12,9,2,13,6,13,12,9,14,9,2,15,15,13,10,13,1,7,11,8,11,13,4,9,4,1,8,15,9,8>>
    [] data = "c" ->
      <<8,4,10,5,1,6,8,4,1,11,10,7,7,10,5,11,4,6,4,8,13,14,2,12,13,0,13,15,12,11,3,0,14,10,4,6,13,11,11,4>>
    [] data = "d" ->
      <<3,12,3,6,3,8,3,6,12,15,4,14,1,6,6,6,6,6,6,9,10,2,5,13,10,2,8,0,10,1,8,6,5,12,2,13,2,8,7,4>>
    [] data = "8.8.8.8" ->
      <<5,3,10,6,3,6,11,14,15,12,13,6,14,3,0,4,9,10,0,14,10,14,5,15,11,12,4,4,0,1,6,5,1,2,2,2,9,2,2,1>>

\* A str whose content the model does not know, named by the last 16
\* hexadecimal digits of its SHA-1 hexdigest (its other 24 digits are
\* masked away by _hash and written 0).
PreimageItem(tail) == [t |-> "preimage", sha1 |-> [d \in 1..24 |-> 0] \o tail]

\* _hash: the low 64 bits of the digest, as 16 hexadecimal digits
HyperLogLog_hash(value) ==
  LET digest == IF value.t = "preimage" THEN value.sha1
                ELSE sha1_hexdigest(py_str(value))
  IN SubSeq(digest, Len(digest) - MAX_BITS \div 4 + 1, Len(digest))

\* bit k (0 the lowest) of a 64-bit number given by its 16 hexadecimal digits
Bit(x, k) == (x[16 - k \div 4] \div 2 ^ (k % 4)) % 2

RECURSIVE BitsValue(_, _, _)
\* the number the n bits of x from bit lo upward spell
BitsValue(x, lo, n) ==
  IF n = 0 THEN 0 ELSE Bit(x, lo) + 2 * BitsValue(x, lo + 1, n - 1)

\* x >> n, for a result below 2^31
ShiftRight(x, n) == BitsValue(x, n, MAX_BITS - n)

\* faulty variant: nothing is masked away
MaskLow_none(x, n) == x

\* x & ((1 << n) - 1), as 16 hexadecimal digits
MaskLow(x, n) ==
  [d \in 1..16 |->
     LET lo == 4 * (16 - d)
         keep(b) == IF lo + b < n THEN Bit(x, lo + b) ELSE 0
     IN keep(0) + 2 * keep(1) + 4 * keep(2) + 8 * keep(3)]

\* w.bit_length()
BitLength(w) ==
  LET ones == {k \in 0..(MAX_BITS - 1) : Bit(w, k) = 1}
  IN IF ones = {} THEN 0
     ELSE 1 + CHOOSE k \in ones : \A j \in ones : j <= k

RECURSIVE Zeros(_)
\* [0] * n
Zeros(n) ==
  IF n = 0 THEN <<>>
  ELSE IF n % 2 = 1 THEN <<0>> \o Zeros(n - 1)
  ELSE LET half == Zeros(n \div 2) IN half \o half

\* The list registers is a sequence: registers[j] of the source is element
\* j + 1 of it.
HyperLogLog_init(p) ==
  IF ~(4 <= p /\ p <= 16) THEN [raised |-> "ValueError", self |-> NoFields]
  ELSE [raised |-> "none",
        self |-> [p |-> p, m |-> 2 ^ p, registers |-> Zeros(2 ^ p)]]

\* faulty variant: the all-zero case is one too high
HyperLogLog_rho_off(self, w) ==
  LET bits == MAX_BITS - self.p
  IN IF \A d \in 1..16 : w[d] = 0 THEN bits + 2
     ELSE (bits - BitLength(w)) + 1

HyperLogLog_rho(self, w) ==
  LET bits == MAX_BITS - self.p
  IN IF \A d \in 1..16 : w[d] = 0 THEN bits + 1
     ELSE (bits - BitLength(w)) + 1

\* faulty variant: the register is overwritten, not raised
HyperLogLog_add_nomax(self, value) ==
  LET x == HyperLogLog_hash(value)
      idx == ShiftRight(x, MAX_BITS - self.p)
      w == MaskLow(x, MAX_BITS - self.p)
      rho == HyperLogLog_rho(self, w)
  IN [self EXCEPT !.registers[idx + 1] = rho]

HyperLogLog_add(self, value) ==
  LET x == HyperLogLog_hash(value)
      idx == ShiftRight(x, MAX_BITS - self.p)
      w == MaskLow(x, MAX_BITS - self.p)
      rho == HyperLogLog_rho(self, w)
  IN IF rho > self.registers[idx + 1]
     THEN [self EXCEPT !.registers[idx + 1] = rho]
     ELSE self

\* alpha_m as the fraction num / den
AlphaM(m) ==
  IF m = 16 THEN [num |-> 673, den |-> 1000]
  ELSE IF m = 32 THEN [num |-> 697, den |-> 1000]
  ELSE IF m = 64 THEN [num |-> 709, den |-> 1000]
  ELSE [num |-> 7213 * m, den |-> 10 * (1000 * m + 1079)]

RECURSIVE SumPow2(_, _, _)
\* sum(2.0 ** -v for v in registers) * 2 ** K, over the register values vals
SumPow2(registers, K, vals) ==
  IF vals = {} THEN <<>>
  ELSE LET v == CHOOSE u \in vals : TRUE
           n == Cardinality({j \in DOMAIN registers : registers[j] = v})
       IN BigAdd(BigMulSmall(BigPow2(K - v), n),
                 SumPow2(registers, K, vals \ {v}))

\* faulty variant: or in place of and
SmallRange_or(num, den, m, V) ==
  BigLeq(BigMulSmall(num, 2), BigMulSmall(den, 5 * m)) \/ V # 0

\* E <= 5.0 * m / 2.0 and V != 0, for E = num / den
SmallRange(num, den, m, V) ==
  BigLeq(BigMulSmall(num, 2), BigMulSmall(den, 5 * m)) /\ V # 0

\* E > TWO_32 / 30.0, for E = num / den
LargeRange(num, den) == BigLess(BigMul(BigPow2(32), den), BigMulSmall(num, 30))

\* count(): the value it returns or the exception it raises.  The floats of
\* the source are computed exactly: Z = S / 2^K and the raw estimate
\* E = num / den are fractions of natural numbers, and the two logarithms
\* are not evaluated (linear says E is m * log(m / V), large that the last
\* correction was applied to it).
HyperLogLog_count(self) ==
  LET m == self.m
      registers == self.registers
      alpha_m == AlphaM(m)
      K == (MAX_BITS - self.p) + 1
      S == SumPow2(registers, K, {registers[j] : j \in DOMAIN registers})
      num == BigMul(BigPow2(K),
                    BigMulSmall(BigMulSmall(BigFromInt(alpha_m.num), m), m))
      den == BigMul(BigFromInt(alpha_m.den), S)
      V == Cardinality({j \in DOMAIN registers : registers[j] = 0})
      linear == SmallRange(num, den, m, V)
      \* m * log(m / V) is below m * p, a whole number
      large == IF linear THEN LargeRange(BigFromInt(m * self.p), <<1>>)
               ELSE LargeRange(num, den)
      \* math.log(1.0 - E / TWO_32) of a number <= 0
      domain_error == large /\ ~linear /\ BigLeq(BigMul(BigPow2(32), den), num)
  IN [raised |-> IF domain_error THEN "ValueError" ELSE "none",
      linear |-> linear, large |-> large, m |-> m, V |-> V,
      num |-> num, den |-> den]

\* the values the callers of the estimator pass
Values == {StrItem("a"), StrItem("b"), StrItem("c"), StrItem("d")}

\* A str whose 64-bit hash has the top hexadecimal digit j and, below it, 60
\* bits whose highest set bit is bit 60 - r (none set when r = 61).
HashedAs(j, r) ==
  PreimageItem([d \in 1..16 |->
                  IF d = 1 THEN j
                  ELSE IF r <= 60 /\ d = 16 - (60 - r) \div 4
                       THEN 2 ^ ((60 - r) % 4)
                       ELSE 0])

\* the lists the model gives measure_hll: the beginnings of three streams
Streams ==
  LET short == <<StrItem("a"), StrItem("b"), StrItem("a"), StrItem("c"),
                 StrItem("b"), StrItem("d")>>
      mid == [j \in 1..16 |-> HashedAs(j - 1, 10)]
      high == [j \in 1..16 |-> HashedAs(j - 1, 24)]
                \o [j \in 1..16 |-> HashedAs(j - 1, 61)]
  IN {SubSeq(s, 1, n) : s \in {short, mid}, n \in 0..6}
       \cup {SubSeq(s, 1, n) : s \in {mid, high}, n \in 7..16}
       \cup {SubSeq(high, 1, n) : n \in 17..32}

HllConstructed == DOMAIN hll # {}

NewHyperLogLog(p) ==
  /\ prog = "hll" /\ pc = "idle" /\ ~HllConstructed
  /\ LET r == HyperLogLog_init(p)
     IN /\ hll' = r.self
        /\ ret' = [op |-> "HyperLogLog", p |-> p, raised |-> r.raised]
  /\ UNCHANGED <<prog, bloom, pc, new_passwords, cursor, results, ips, added>>

CallHllAdd(value) ==
  /\ prog = "hll" /\ pc = "idle" /\ HllConstructed
  /\ hll' = HyperLogLog_add(hll, value)
  /\ added' = added \cup {value}
  /\ ret' = [op |-> "add", value |-> value, raised |-> "none"]
  /\ UNCHANGED <<prog, bloom, pc, new_passwords, cursor, results, ips>>

CallCount ==
  /\ prog = "hll" /\ pc = "idle" /\ HllConstructed
  /\ ret' = [op |-> "count", value |-> HyperLogLog_count(hll)]
  /\ UNCHANGED <<prog, bloom, hll, pc, new_passwords, cursor, results, ips,
                 added>>

\* measure_hll(ips, p): hll = HyperLogLog(p=p)
MeasureCall(list, p) ==
  /\ prog = "measure_hll" /\ pc = "idle"
  /\ hll' = HyperLogLog_init(p).self
  /\ ips' = list
  /\ cursor' = 1
  /\ pc' = "measure_loop"
  /\ ret' = Running
  /\ added' = {}
  /\ UNCHANGED <<prog, bloom, new_passwords, results>>

\* for ip in ips: hll.add(ip)
MeasureStep ==
  /\ pc = "measure_loop" /\ cursor <= Len(ips)
  /\ hll' = HyperLogLog_add(hll, ips[cursor])
  /\ added' = added \cup {ips[cursor]}
  /\ cursor' = cursor + 1
  /\ UNCHANGED <<prog, bloom, pc, new_passwords, results, ips, ret>>

\* estimate = hll.count()
MeasureCount ==
  /\ pc = "measure_loop" /\ cursor > Len(ips)
  /\ ret' = [op |-> "count", value |-> HyperLogLog_count(hll)]
  /\ pc' = "measure_counted"
  /\ UNCHANGED <<prog, bloom, hll, new_passwords, cursor, results, ips, added>>

\* return estimate, or the exception of count() leaves measure_hll
MeasureReturn ==
  /\ pc = "measure_counted"
  /\ ret' = [op |-> "measure_hll", value |-> ret.value]
  /\ pc' = "idle"
  /\ hll' = NoFields
  /\ ips' = <<>>
  /\ cursor' = 0
  /\ UNCHANGED <<prog, bloom, new_passwords, results, added>>

HllNext ==
  \/ \E p \in 3..(4 + ExtraPrecision) \cup {16, 17} : NewHyperLogLog(p)
  \/ \E value \in Values : CallHllAdd(value)
  \/ CallCount

MeasureNext ==
  \/ \E list \in Streams, p \in {4, 14} : MeasureCall(list, p)
  \/ MeasureStep
  \/ MeasureCount
  \/ MeasureReturn

Init ==
  /\ prog \in {"bloom", "hll", "measure_hll"}
  /\ bloom = NoFields
  /\ hll = NoFields
  /\ pc = "idle"
  /\ new_passwords = <<>>
  /\ cursor = 0
  /\ results = NoFields
  /\ ips = <<>>
  /\ ret = Running
  /\ added = {}

Next == BloomNext \/ HllNext \/ MeasureNext

Spec == Init /\ [][Next]_vars
----------------------------------------------------------------------------
(* The properties. *)

\* the zero registers of the estimator
ZeroRegisters ==
  {j \in DOMAIN hll.registers : hll.registers[j] = 0}

\* bit k of a 64-bit hash, counted from the top (1 the highest)
TopBit(x, k) == (x[(k - 1) \div 4 + 1] \div 2 ^ (3 - ((k - 1) % 4))) % 2

\* the register index a hash selects: the number its top p bits spell
IndexOf(x, p) ==
  (x[1] * 4096 + x[2] * 256 + x[3] * 16 + x[4]) \div 2 ^ (16 - p)

\* 1 + the number of zero bits in front of the first set bit among the low
\* 64 - p bits; (64 - p) + 1 when none of them is set
RhoOf(x, p) ==
  LET ones == {k \in (p + 1)..64 : TopBit(x, k) = 1}
  IN IF ones = {} THEN (64 - p) + 1
     ELSE (CHOOSE k \in ones : \A j \in ones : k <= j) - p

\* what add(value) must make of the estimator h
AddRule(h, h2, value) ==
  LET x == HyperLogLog_hash(value)
      idx == IndexOf(x, h.p)
      rho == RhoOf(x, h.p)
      old == h.registers[idx + 1]
  IN /\ rho >= 1
     /\ h2.p = h.p /\ h2.m = h.m
     /\ h2.registers =
          [h.registers EXCEPT ![idx + 1] = IF rho > old THEN rho ELSE old]

\* C1: every item that add() was called with, by a caller or by
\* check_password_uniqueness, passes the membership test in every later
\* state of the filter.
NoFalseNegatives ==
  (prog = "bloom" /\ BloomConstructed) =>
    \A item \in added : BloomFilter_contains(bloom, item)

\* two items were added, a membership test returned True, and the filter
\* is not saturated
NoFalseNegativesWitness ==
  /\ prog = "bloom" /\ BloomConstructed
  /\ bloom.num_hashes = 2
  /\ Cardinality({BloomFilter_normalize(item) : item \in added}) >= 2
  /\ ret.op = "contains" /\ ret.value
  /\ \E pos \in DOMAIN bloom.bit_array : bloom.bit_array[pos] = 0

\* C2: after construction no call raises: count() returns a number, and
\* add, the membership test and check_password_uniqueness return.
NeverRaises ==
  /\ ret.op = "count" => ret.value.raised = "none"
  /\ ret.op \in {"add", "contains", "check_password_uniqueness"} =>
       ret.raised = "none"

\* C3: when two different raw items of a pass normalize to the same string,
\* the report is keyed by the normalized strings, so the two share one
\* entry, and that entry holds the status of the later one (DUPLICATE: the
\* earlier one is in the filter by then).
ReportKeyedByNormalize ==
  (pc = "check_loop" /\ cursor > Len(new_passwords)) =>
    \A i, j \in 1..Len(new_passwords) :
      ( /\ i < j
        /\ new_passwords[i] # new_passwords[j]
        /\ BloomFilter_normalize(new_passwords[i])
             = BloomFilter_normalize(new_passwords[j]) ) =>
      /\ DOMAIN results =
           {BloomFilter_normalize(new_passwords[k]) :
              k \in 1..Len(new_passwords)}
      /\ results[BloomFilter_normalize(new_passwords[j])] = DUPLICATE

\* C4: the estimator has 2^p registers, each in 0..(64 - p) + 1, and no
\* step lowers a register.
RegisterInvariant ==
  /\ [](HllConstructed =>
          /\ hll.m = 2 ^ hll.p
          /\ Len(hll.registers) = 2 ^ hll.p
          /\ \A j \in 1..Len(hll.registers) :
               hll.registers[j] \in 0..((64 - hll.p) + 1))
  /\ [][(HllConstructed /\ HllConstructed') =>
          \A j \in 1..Len(hll.registers) :
            hll'.registers[j] >= hll.registers[j]]_vars

\* a register holds the largest value (64 - p) + 1 and another one a
\* smaller value above 0
RegisterInvariantWitness ==
  /\ HllConstructed
  /\ \E j \in DOMAIN hll.registers :
       hll.registers[j] = (64 - hll.p) + 1
  /\ \E j \in DOMAIN hll.registers :
       hll.registers[j] > 0 /\ hll.registers[j] < (64 - hll.p) + 1

\* C5: bit_array has size entries, each 0 or 1; all are 0 right after
\* construction; no step takes a bit from 1 back to 0.
BitVectorInvariant ==
  /\ [](BloomConstructed =>
          /\ DOMAIN bloom.bit_array = 0..(bloom.size - 1)
          /\ \A pos \in DOMAIN bloom.bit_array :
               bloom.bit_array[pos] \in {0, 1})
  /\ [][(~BloomConstructed /\ BloomConstructed') =>
          \A pos \in DOMAIN bloom'.bit_array : bloom'.bit_array[pos] = 0]_vars
  /\ [][(BloomConstructed /\ BloomConstructed') =>
          /\ bloom'.size = bloom.size
          /\ \A pos \in DOMAIN bloom.bit_array :
               bloom.bit_array[pos] = 1 => bloom'.bit_array[pos] = 1]_vars

\* after adds the filter holds set and unset bits
BitVectorWitness ==
  /\ BloomConstructed
  /\ Cardinality(added) >= 2
  /\ \E pos \in DOMAIN bloom.bit_array : bloom.bit_array[pos] = 1
  /\ \E pos \in DOMAIN bloom.bit_array : bloom.bit_array[pos] = 0

\* C6: in either sketch a second add of an item right after the first
\* changes nothing, and neither does an add of an item that was added at
\* any earlier point.
IdempotentAdd ==
  /\ []((prog = "bloom" /\ BloomConstructed) =>
          \A item \in Passwords :
            BloomFilter_add(BloomFilter_add(bloom, item), item)
              = BloomFilter_add(bloom, item))
  /\ []((prog = "hll" /\ HllConstructed) =>
          \A value \in Values :
            HyperLogLog_add(HyperLogLog_add(hll, value), value)
              = HyperLogLog_add(hll, value))
  /\ [][(ret'.op = "add" /\ added' = added) =>
          (bloom' = bloom /\ hll' = hll)]_vars
  /\ [][(pc = "measure_loop" /\ cursor' = cursor + 1
           /\ ips[cursor] \in added) => hll' = hll]_vars

\* measure_hll has added a value for the second time, after another one
IdempotentAddWitness ==
  /\ pc = "measure_loop" /\ cursor = 4
  /\ ips[3] = ips[1] /\ ips[2] # ips[1]
  /\ Cardinality(ZeroRegisters) = hll.m - 2

\* C7: a constructor raises exactly on an invalid configuration, and then
\* no field of the object is assigned; otherwise every field is.
ConstructorContract ==
  /\ ret.op = "BloomFilter" =>
       LET invalid == ret.size <= 0 \/ ret.num_hashes <= 0
       IN /\ (ret.raised = "ValueError") <=> invalid
          /\ (ret.raised = "none") <=> ~invalid
          /\ invalid => bloom = NoFields
          /\ ~invalid =>
               bloom = [size |-> ret.size, num_hashes |-> ret.num_hashes,
                        bit_array |-> [j \in 0..(ret.size - 1) |-> 0]]
  /\ ret.op = "HyperLogLog" =>
       LET invalid == ret.p < 4 \/ ret.p > 16
       IN /\ (ret.raised = "ValueError") <=> invalid
          /\ (ret.raised = "none") <=> ~invalid
          /\ invalid => hll = NoFields
          /\ ~invalid =>
               /\ DOMAIN hll = {"p", "m", "registers"}
               /\ hll.p = ret.p /\ hll.m = 2 ^ ret.p
               /\ Len(hll.registers) = 2 ^ ret.p
               /\ \A j \in 1..Len(hll.registers) : hll.registers[j] = 0

\* BloomFilter(0, num_hashes) with a valid num_hashes was refused
ConstructorWitness ==
  /\ ret.op = "BloomFilter" /\ ret.size = 0 /\ ret.num_hashes > 0
  /\ ret.raised = "ValueError"

\* C8: each iteration of check_password_uniqueness takes the next item of
\* the input, reports DUPLICATE and leaves the filter alone when the
\* membership test holds before the iteration, reports UNIQUE and sets
\* the item's bits otherwise; a repeated item of the pass is reported
\* DUPLICATE; when the loop ends every input item passes the test.
CheckThenAdd ==
  /\ [][(pc = "check_loop" /\ pc' = "check_loop" /\ cursor' # cursor) =>
          LET pwd == new_passwords[cursor]
              was == BloomFilter_contains(bloom, pwd)
              hs == BloomFilter_hashes(bloom, pwd)
          IN /\ cursor' = cursor + 1 /\ cursor <= Len(new_passwords)
             /\ new_passwords' = new_passwords
             /\ results'[py_str(pwd)] = (IF was THEN DUPLICATE ELSE UNIQUE)
             /\ was => bloom' = bloom
             /\ ~was =>
                  bloom' = [bloom EXCEPT !.bit_array =
                              [pos \in DOMAIN @ |->
                                 IF \E k \in DOMAIN hs : hs[k] = pos
                                 THEN 1 ELSE @[pos]]]
             /\ (\E j \in 1..(cursor - 1) : new_passwords[j] = pwd) =>
                  results'[py_str(pwd)] = DUPLICATE]_vars
  /\ []((pc = "check_loop" /\ cursor > Len(new_passwords)) =>
          \A j \in 1..Len(new_passwords) :
            BloomFilter_contains(bloom, new_passwords[j]))

\* a pass has met the same new item twice: added at its first occurrence,
\* reported DUPLICATE at its second
CheckThenAddWitness ==
  /\ pc = "check_loop" /\ cursor = 3
  /\ new_passwords[1] = new_passwords[2]
  /\ new_passwords[1] \in added
  /\ ret = Running
  /\ results[py_str(new_passwords[2])] = DUPLICATE
  /\ \E pos \in DOMAIN bloom.bit_array : bloom.bit_array[pos] = 0

\* C9: with E = alpha * m^2 / Z the raw estimate and V the number of zero
\* registers, count() takes m * log(m / V) exactly when E <= 2.5 * m and
\* V > 0, applies the large-range correction exactly when the estimate it
\* then holds exceeds 2^32 / 30 (m * log(m / V) never does), and returns
\* m * log(m / m) = 0 for an estimator with no register set.
RegimeSelection ==
  ret.op = "count" =>
    LET c == ret.value
        V == Cardinality(ZeroRegisters)
        K == (64 - hll.p) + 1
        S == SumPow2(hll.registers, K,
                     {hll.registers[j] : j \in DOMAIN hll.registers})
        alpha == AlphaM(hll.m)
        \* E <= 5 * m / 2 and E > 2^32 / 30, cross-multiplied
        small == BigLeq(BigMulSmall(c.num, 2), BigMulSmall(c.den, 5 * hll.m))
        big == BigLess(BigMul(BigPow2(32), c.den), BigMulSmall(c.num, 30))
    IN /\ c.V = V /\ c.m = hll.m
       \* c.num / c.den = alpha * m^2 / (S / 2^K)
       /\ BigMul(c.num, BigMul(BigFromInt(alpha.den), S))
            = BigMul(c.den,
                     BigMul(BigPow2(K),
                            BigMulSmall(BigMulSmall(BigFromInt(alpha.num),
                                                    hll.m), hll.m)))
       /\ c.linear <=> (small /\ V > 0)
       /\ c.large <=> (~c.linear /\ big)
       /\ V = hll.m => (c.linear /\ ~c.large /\ c.raised = "none")

\* count() kept the raw estimate although a register is still zero
RegimeSelectionWitness ==
  /\ ret.op = "count"
  /\ ~ret.value.linear /\ ret.value.V > 0 /\ ~ret.value.large
  /\ ret.value.raised = "none"

\* C10: add changes nothing but the register the top p bits of the hash
\* select, which becomes the larger of its old value and rho of the low
\* 64 - p bits (rho >= 1); count() changes nothing of the estimator.
AddUpdateRule ==
  /\ [][(prog = "hll" /\ ret'.op = "add") =>
          AddRule(hll, hll', ret'.value)]_vars
  /\ [][(pc = "measure_loop" /\ cursor' # cursor) =>
          AddRule(hll, hll', ips[cursor])]_vars
  /\ [][ret'.op = "count" => hll' = hll]_vars

\* add("d") has raised register 10 of a 16-register estimator to 3 = rho
AddUpdateWitness ==
  /\ prog = "hll" /\ HllConstructed /\ hll.p = 4
  /\ ret.op = "add" /\ ret.value = StrItem("d")
  /\ hll.registers[11] = 3
  /\ Cardinality(ZeroRegisters) < 15
====
